---- MODULE Spec2Model ----
(***************************************************************************)
(* The PRIME guardrails request pipeline: the two safety-check tools of    *)
(* prime_guardrails/observability_tools.py, driven by the five-step        *)
(* workflow of ROUTER_INSTRUCTIONS (prime_guardrails/prompt.py), over the  *)
(* audit log, the escalation ticket store and the access-control gate.     *)
(* The audit logger (.logging), the ticket store and the gate (.iam.acl)   *)
(* are imported by the sources but not part of them; they are modelled     *)
(* from their specification.                                               *)
(***************************************************************************)
EXTENDS Integers, Sequences, FiniteSets, TLC

\* ------------------------------------------------------------------ bounds
NumRequests == 1
NumResolvers == 2

Requests == 1..NumRequests
Attempts == 1..NumResolvers

\* ------------------------------------------------------- program constants
\* user_input[:200] in the details of the layer-1 and layer-2 audit entries
InputLogLimit == 200
\* "safety_score": 0.5 and "confidence": 0.0 of error_response, in tenths
ErrorSafetyScore == 5
ErrorConfidence == 0
\* is_safe = nsfw_score <= 0.5 of ImageSafetyTool.check, in tenths
NsfwThreshold == 5
\* "confidence": 0.0 and "nsfw_score": 0.0 of the classifiers' except branches
ErrorTextConfidence == 0
ErrorNsfwScore == 0

VARIABLES
    currentUser,  \* config.IAM_CURRENT_USER_ID: the user this process serves
    pc,           \* per request: the router's position in the workflow
    l1Result,     \* per request: what safety_check_layer1 returned
    l2Invoked,    \* per request: safety_check_layer2 has been called
    l2Outcome,    \* per request: what the Gemini call did (history)
    l2Return,     \* per request: the string safety_check_layer2 returned
    raised,       \* per request: the exception that left a tool call
    appendFailed, \* per request: the log_event calls that raised (history)
    toolAuth,     \* per request: the text the banking tools were called with
    toolArgs,     \* per request: capability and target of the banking tool call
    toolResult,   \* per request: the gate's answer to the banking tool call
    auditLog,     \* the audit log, in append order
    nextSeq,      \* the audit log's sequence counter
    tickets,      \* the escalation ticket store, indexed by ticket id
    apc,          \* per resolve attempt: its position
    aArgs,        \* per resolve attempt: ticket id and acting actor
    aResult,      \* per resolve attempt: its result
    roleStr,      \* config.IAM_CURRENT_USER_ROLE, a string of characters
    toolDescriptions, \* get_tool_descriptions' list `tools`, once it is built
    textCheck,    \* the last TextSafetyTool.check call and its result
    imageCheck    \* the last ImageSafetyTool.check call and its result

vars == <<currentUser, pc, l1Result, l2Invoked, l2Outcome, l2Return, raised, appendFailed,
          toolAuth, toolArgs, toolResult, auditLog, nextSeq, tickets, apc, aArgs,
          aResult, roleStr, toolDescriptions, textCheck, imageCheck>>

pipelineVars == <<pc, l1Result, l2Invoked, l2Outcome, l2Return, raised, appendFailed,
                  toolAuth, toolArgs, toolResult>>
resolveVars == <<apc, aArgs, aResult>>
promptVars == <<roleStr, toolDescriptions>>
classifierVars == <<textCheck, imageCheck>>

Min(a, b) == IF a <= b THEN a ELSE b

\* ------------------------------------------------------------------- users
\* demo/switch_user.py: the three users a process can be configured for
USERS == [user  |-> [id |-> "user",  name |-> "Alice Johnson", role |-> "USER"],
          staff |-> [id |-> "staff", name |-> "Bob Smith",     role |-> "STAFF"],
          admin |-> [id |-> "admin", name |-> "Carol Admin",   role |-> "ADMIN"]]

UserIds == DOMAIN USERS

\* the "no target" argument of an authorization
NoTarget == "<none>"

\* role_key = "USER" if role == UserRole.USER else "STAFF_ADMIN"
RoleKeyAlwaysStaffAdmin(role) == "STAFF_ADMIN"

RoleKey(role) == IF role = "USER" THEN "USER" ELSE "STAFF_ADMIN"

\* Role -> capability mapping.  The banking tools are offered in their
\* any-customer form to the STAFF_ADMIN role key; ticket listing/resolution
\* to STAFF and ADMIN; audit-log viewing to ADMIN only.
CapabilitiesOf(role) ==
    {"VIEW_OWN_RESOURCE"}
    \cup (IF RoleKey(role) = "STAFF_ADMIN" THEN {"VIEW_ANY_RESOURCE"} ELSE {})
    \cup (IF role \in {"STAFF", "ADMIN"} THEN {"ADMINISTER_TICKETS"} ELSE {})
    \cup (IF role = "ADMIN" THEN {"VIEW_AUDIT_LOG"} ELSE {})

HasCapability(role, capability) == capability \in CapabilitiesOf(role)

Capabilities == {"VIEW_OWN_RESOURCE", "VIEW_ANY_RESOURCE",
                 "ADMINISTER_TICKETS", "VIEW_AUDIT_LOG"}

\* authorize(actor, capability, target?): the capability must be held, and an
\* actor without the any-resource capability is authorized only against itself.
Authorize(actorId, capability, target) ==
    LET role == USERS[actorId].role IN
    IF ~HasCapability(role, capability)
    THEN [kind |-> "AccessDenied", capability |-> capability, target |-> target]
    ELSE IF target # NoTarget /\ target # actorId
            /\ ~HasCapability(role, "VIEW_ANY_RESOURCE")
    THEN [kind |-> "AccessDenied", capability |-> capability, target |-> target]
    ELSE [kind |-> "Authorization", capability |-> capability, target |-> target]

NoToolArgs == [capability |-> "none", target |-> NoTarget]
NoAuthResult == [kind |-> "none", capability |-> "none", target |-> NoTarget]

\* --------------------------------------------------------------- audit log
\* the sequence number after n
NextSeqStuck(n) == n

NextSeq(n) == n + 1

\* log_event: one entry appended under the next sequence number.  `req` is a
\* history field: the request whose tool call appended the entry.
LogEvent(log, seq, req, user_id, action, details, success, error) ==
    Append(log, [seq |-> seq, event_type |-> "USER_QUERY",
                 user_id |-> user_id, action |-> action,
                 details |-> details, success |-> success, error |-> error,
                 req |-> req])

\* user_input[:200]
Truncate(s) == SubSeq(s, 1, Min(Len(s), InputLogLimit))

\* the text of request r (requests are told apart by their text)
UserInput(r) == <<"input", r>>

\* ------------------------------------------------------------ JSON strings
\* A string is either the JSON text of a value or text that is not JSON.
JsonDumps(value) == [json |-> TRUE, value |-> value]

\* json.loads(text): the value, when the text is JSON.  Callers test
\* IsJson first; json.loads raises on any other text.
IsJson(text) == text.json
JsonLoads(text) == text.value

\* ------------------------------------------------------- the deep evaluator
Actions == {"approve", "reject", "rewrite", "escalate"}

\* a JSON object without an "action" key
NoAction == "<absent>"
\* a params object without "rewritten_text"; also the empty text
NoText == <<>>
RewrittenText == <<"rewritten">>

Decision(action, confidence, rewritten) ==
    [safety_score |-> 9, action |-> action,
     params |-> [rewritten_text |-> rewritten], confidence |-> confidence,
     reasoning |-> <<"model reasoning">>, violated_rules |-> {}]

\* the JSON objects the model may answer with: the four documented actions,
\* an action outside them, no action, and a rewrite without its text
DeepPayloads ==
    { Decision("approve", 9, NoText), Decision("reject", 9, NoText),
      Decision("rewrite", 9, RewrittenText), Decision("rewrite", 9, NoText),
      Decision("escalate", 5, NoText), Decision("allow", 9, NoText),
      Decision(NoAction, 9, NoText) }

NotJsonText == [json |-> FALSE, value |-> Decision(NoAction, 0, NoText)]

\* genai_client.models.generate_content either raises or answers with text
EvaluatorErrors == {"TimeoutError", "TransportError"}

EvaluatorOutcomes ==
    { [kind |-> "raise", error |-> e, text |-> NotJsonText] : e \in EvaluatorErrors }
    \cup { [kind |-> "text", error |-> "", text |-> JsonDumps(d)] : d \in DeepPayloads }
    \cup { [kind |-> "text", error |-> "", text |-> NotJsonText] }

NoOutcome == [kind |-> "none", error |-> "", text |-> NotJsonText]
NoReturn == NotJsonText

\* --------------------------------------------------- safety_check_layer1
\* is_safe = True: the mock classifier
Layer1IsSafe == TRUE

Layer1Result(is_safe) == IF is_safe THEN "PASSED" ELSE "FAILED"

Layer1Details(r) ==
    [input |-> Truncate(UserInput(r)), model |-> "mock_ml_classifier",
     note |-> "Mock implementation - always passes"]

\* --------------------------------------------------- safety_check_layer2
\* the exception raised inside the try block, "" when it runs to its return
Layer2TryError(outcome, logOk) ==
    IF outcome.kind = "raise" THEN outcome.error
    ELSE IF ~IsJson(outcome.text) THEN "JSONDecodeError"
    ELSE IF ~logOk THEN "AuditLogError"
    ELSE ""

\* the log_event calls of one safety_check_layer2 call that raise: the one of
\* the try block is reached when the answer parsed, the one of the except
\* block when the try block raised
Layer2FailedAppends(outcome, logOk, logOk2) ==
    (IF outcome.kind = "text" /\ IsJson(outcome.text) /\ ~logOk
     THEN {"safety_layer2_check"} ELSE {})
    \cup (IF Layer2TryError(outcome, logOk) # "" /\ ~logOk2
          THEN {"safety_layer2_check_failed"} ELSE {})

Layer2Details(r, safety_decision) ==
    [input |-> Truncate(UserInput(r)), model |-> "gemini-2.0-flash-live-001",
     decision |-> safety_decision]

\* error_response of the except branch
ErrorResponseApproves(e) ==
    [safety_score |-> ErrorSafetyScore, action |-> "approve",
     params |-> [rewritten_text |-> NoText], confidence |-> ErrorConfidence,
     reasoning |-> <<"Error during safety check", e>>, violated_rules |-> {}]

ErrorResponse(e) ==
    [safety_score |-> ErrorSafetyScore, action |-> "escalate",
     params |-> [rewritten_text |-> NoText], confidence |-> ErrorConfidence,
     reasoning |-> <<"Error during safety check", e>>, violated_rules |-> {}]

NoDetails == [input |-> NoText]

\* ------------------------------------------------- the router's workflow
\* Step 3: the action the router dispatches on is the "action" field of the
\* JSON that layer 2 returned
DecisionAction(text) == JsonLoads(text).action

\* Step 4, approve and rewrite: the banking tools are called
GrantsToolsAlsoOnEscalate(action) == action \in {"approve", "rewrite", "escalate"}

GrantsTools(action) == action \in {"approve", "rewrite"}

\* Step 4, rewrite: params.rewritten_text is processed instead of the original
EffectiveInput(r, decision) ==
    IF decision.action = "rewrite" THEN decision.params.rewritten_text
    ELSE UserInput(r)

\* Step 4, escalate: create_escalation_ticket is called
CreatesTicketNever(action) == FALSE

CreatesTicket(action) == action = "escalate"

\* Step 5: the response is given only after log_agent_response was called
MayRespondBeforeLogging(r) == pc[r] \in {"dispatched", "logged"}

MayRespond(r) == pc[r] = "logged"

\* ------------------------------------------------------------ ticket store
\* create(actorId, input, reasoning): the id is the next index, status OPEN
NewTicket(id, actorId, input, reasoning, req) ==
    [id |-> id, actorId |-> actorId, originalInput |-> input,
     reasoning |-> reasoning, status |-> "OPEN", resolutionNote |-> NoText,
     resolvedBy |-> "", req |-> req]

\* resolve is a compare-and-swap on the status: only OPEN is resolved
MayResolveAnyStatus(ticket) == TRUE

MayResolve(ticket) == ticket.status = "OPEN"

ResolutionNote(a) == <<"note", a>>

NoArgs == [ticket |-> 0, actor |-> ""]

\* ------------------------------------------------- get_tool_descriptions
\* Role strings are sequences of characters, so that lower() is what it is.
UpperChars == <<"U", "S", "E", "R", "T", "A", "F", "D", "M", "I", "N", "G",
               "O", "V", "L", "B">>
LowerChars == <<"u", "s", "e", "r", "t", "a", "f", "d", "m", "i", "n", "g",
               "o", "v", "l", "b">>

\* str.lower() and str.upper() on one character; anything else is kept
LowerChar(c) ==
    IF \E i \in DOMAIN UpperChars : UpperChars[i] = c
    THEN LowerChars[CHOOSE i \in DOMAIN UpperChars : UpperChars[i] = c]
    ELSE c
UpperChar(c) ==
    IF \E i \in DOMAIN LowerChars : LowerChars[i] = c
    THEN UpperChars[CHOOSE i \in DOMAIN LowerChars : LowerChars[i] = c]
    ELSE c

\* role_str.lower()
Lower(str) == [i \in DOMAIN str |-> LowerChar(str[i])]

\* the values of the UserRole enumeration
UserRoleValues ==
    [USER  |-> <<"u", "s", "e", "r">>,
     STAFF |-> <<"s", "t", "a", "f", "f">>,
     ADMIN |-> <<"a", "d", "m", "i", "n">>]

\* IAM_CURRENT_USER_ROLE as demo/switch_user.py writes it for a role
RoleString(role) == [i \in DOMAIN UserRoleValues[role] |->
                        UpperChar(UserRoleValues[role][i])]

\* try: role = UserRole(role_str.lower()) / except ValueError: role = UserRole.USER
UserRoleOfFallsBackToAdmin(role_str) ==
    IF \E role \in DOMAIN UserRoleValues : UserRoleValues[role] = Lower(role_str)
    THEN CHOOSE role \in DOMAIN UserRoleValues : UserRoleValues[role] = Lower(role_str)
    ELSE "ADMIN"

UserRoleOf(role_str) ==
    IF \E role \in DOMAIN UserRoleValues : UserRoleValues[role] = Lower(role_str)
    THEN CHOOSE role \in DOMAIN UserRoleValues : UserRoleValues[role] = Lower(role_str)
    ELSE "USER"

\* one entry of TOOL_DEFINITIONS: its key, the function of its "tool" line
\* and that function's parameters
Tool(key, name, params) == [key |-> key, name |-> name, params |-> params]

\* TOOL_DEFINITIONS[tool_name][role_key] of the five banking tools
BankingTools(role_key) ==
    IF role_key = "USER"
    THEN << Tool("account_balance", "get_account_balance", {"account_id"}),
            Tool("transaction_history", "get_transaction_history",
                 {"account_id", "days"}),
            Tool("list_accounts", "get_user_accounts", {}),
            Tool("report_fraud", "report_fraud", {"account_id", "description"}),
            Tool("transfer_money", "transfer_money",
                 {"from_account_id", "to_account_id", "amount", "description"}) >>
    ELSE << Tool("account_balance", "get_account_balance", {"account_id"}),
            Tool("transaction_history", "get_transaction_history",
                 {"account_id", "days", "user_id"}),
            Tool("list_accounts", "get_user_accounts", {"user_id"}),
            Tool("report_fraud", "report_fraud",
                 {"account_id", "description", "user_id"}),
            Tool("transfer_money", "transfer_money",
                 {"from_account_id", "to_account_id", "amount", "description"}) >>

\* the "General Banking Information" block: no tool behind it
GeneralInfo == << Tool("general_banking_information", "<none>", {}) >>

\* the universal tools: safety, escalation, logging
UniversalTools ==
    << Tool("safety_layer1", "safety_check_layer1", {"user_input"}),
       Tool("safety_layer2", "safety_check_layer2", {"user_input"}),
       Tool("safety_decision", "make_safe_and_compliant_decision",
            {"safety_analysis"}),
       Tool("create_escalation", "create_escalation_ticket",
            {"user_input", "reasoning"}),
       Tool("log_response", "log_agent_response",
            {"response_summary", "full_response"}) >>

\* the role-specific administrative tools
AdministrativeToolsAdminCannotResolve(role) ==
    IF role = "ADMIN"
    THEN << Tool("list_escalations_admin", "list_escalation_tickets", {"status"}),
            Tool("view_audit_logs", "view_audit_logs", {"limit", "event_type"}) >>
    ELSE IF role = "STAFF"
    THEN << Tool("list_escalations_staff", "list_escalation_tickets", {"status"}),
            Tool("resolve_escalation", "resolve_escalation_ticket",
                 {"ticket_id", "resolution_note"}) >>
    ELSE << Tool("list_escalations_user", "list_escalation_tickets", {"status"}) >>

AdministrativeTools(role) ==
    IF role = "ADMIN"
    THEN << Tool("list_escalations_admin", "list_escalation_tickets", {"status"}),
            Tool("view_audit_logs", "view_audit_logs", {"limit", "event_type"}),
            Tool("resolve_escalation", "resolve_escalation_ticket",
                 {"ticket_id", "resolution_note"}) >>
    ELSE IF role = "STAFF"
    THEN << Tool("list_escalations_staff", "list_escalation_tickets", {"status"}),
            Tool("resolve_escalation", "resolve_escalation_ticket",
                 {"ticket_id", "resolution_note"}) >>
    ELSE << Tool("list_escalations_user", "list_escalation_tickets", {"status"}) >>

\* get_tool_descriptions(role_str): the list `tools`, in the order it is built
GetToolDescriptions(role_str) ==
    LET role == UserRoleOf(role_str) IN
    BankingTools(RoleKey(role)) \o GeneralInfo \o UniversalTools
        \o AdministrativeTools(role)

\* the prompt has not been built yet
NoToolDescriptions == <<>>

\* ------------------------------------------------------ the classifiers
\* scores and probabilities, in tenths
Tenths == 0..10

Upper(str) == [i \in DOMAIN str |-> UpperChar(str[i])]

\* sub in str
Contains(str, sub) ==
    \E i \in 0..(Len(str) - Len(sub)) : SubSeq(str, i + 1, i + Len(sub)) = sub

Offensive == <<"o", "f", "f", "e", "n", "s", "i", "v", "e">>

\* labels a text-classification model may answer with
TextLabels ==
    { Offensive, Upper(Offensive), <<"n", "o", "n", "-">> \o Offensive,
      <<"s", "a", "f", "e">>, <<"L", "A", "B", "E", "L", "_", "1">> }

\* self.classifier(text): it raises, or answers with a list of results
TextClassifierOutcomes ==
    { [kind |-> "raise", label |-> <<>>, score |-> 0],
      [kind |-> "empty", label |-> <<>>, score |-> 0] }
    \cup { [kind |-> "results", label |-> l, score |-> c] :
              l \in TextLabels, c \in Tenths }

\* the try block of TextSafetyTool.check raises: the classifier does, or
\* results[0] does on an empty list
TextCheckRaises(out) == out.kind \in {"raise", "empty"}

\* TextSafetyTool.check(text)
TextSafetyCheck(out) ==
    IF TextCheckRaises(out)
    THEN [is_safe |-> TRUE, risk_category |-> "Error",
          confidence |-> ErrorTextConfidence]
    ELSE IF Contains(Lower(out.label), Offensive)
    THEN [is_safe |-> FALSE, risk_category |-> "Offensive", confidence |-> out.score]
    ELSE [is_safe |-> TRUE, risk_category |-> "None", confidence |-> out.score]

\* what image_input is: a URL, a file path, an image object
ImageInputs == {"http-url", "path", "image"}

\* opening the image or running the model raises, or the model answers with
\* the probability of NSFW; its label2id may lack the NSFW label
ImageModelOutcomes ==
    { [kind |-> "raise", has_nsfw_label |-> FALSE, prob |-> 0] }
    \cup { [kind |-> "logits", has_nsfw_label |-> b, prob |-> p] :
              b \in BOOLEAN, p \in Tenths }

\* ImageSafetyTool.check(image_input)
ImageSafetyCheck(out) ==
    IF out.kind = "raise"
    THEN [is_safe |-> TRUE, nsfw_score |-> ErrorNsfwScore]
    ELSE LET nsfw_score == IF out.has_nsfw_label THEN out.prob ELSE 0 IN
         [is_safe |-> nsfw_score <= NsfwThreshold, nsfw_score |-> nsfw_score]

NoTextCheck ==
    [called |-> FALSE, outcome |-> [kind |-> "none", label |-> <<>>, score |-> 0],
     result |-> [is_safe |-> FALSE, risk_category |-> "none", confidence |-> 0]]
NoImageCheck ==
    [called |-> FALSE, input |-> "none",
     outcome |-> [kind |-> "none", has_nsfw_label |-> FALSE, prob |-> 0],
     result |-> [is_safe |-> FALSE, nsfw_score |-> 0]]

\* -------------------------------------------------------------------- Init
Init ==
    /\ currentUser \in UserIds
    /\ pc = [r \in Requests |-> "start"]
    /\ l1Result = [r \in Requests |-> "none"]
    /\ l2Invoked = [r \in Requests |-> FALSE]
    /\ l2Outcome = [r \in Requests |-> NoOutcome]
    /\ l2Return = [r \in Requests |-> NoReturn]
    /\ raised = [r \in Requests |-> ""]
    /\ appendFailed = [r \in Requests |-> {}]
    /\ toolAuth = [r \in Requests |-> <<>>]
    /\ toolArgs = [r \in Requests |-> NoToolArgs]
    /\ toolResult = [r \in Requests |-> NoAuthResult]
    /\ auditLog = <<>>
    /\ nextSeq = 1
    /\ tickets = <<>>
    /\ apc = [a \in Attempts |-> "idle"]
    /\ aArgs = [a \in Attempts |-> NoArgs]
    /\ aResult = [a \in Attempts |-> "none"]
    /\ roleStr = RoleString(USERS[currentUser].role)
    /\ toolDescriptions = GetToolDescriptions(roleStr)
    /\ textCheck = NoTextCheck
    /\ imageCheck = NoImageCheck

\* ----------------------------------------------------------------- actions
\* Step 1: safety_check_layer1(user_input).  The entry is logged, then the
\* mock verdict is returned; an exception of log_event leaves the call.
SafetyCheckLayer1(r, logOk) ==
    /\ pc[r] = "start"
    /\ IF logOk
       THEN /\ auditLog' = LogEvent(auditLog, nextSeq, r, currentUser, "safety_layer1_check",
                                    Layer1Details(r), TRUE, "")
            /\ nextSeq' = NextSeq(nextSeq)
            /\ l1Result' = [l1Result EXCEPT ![r] = Layer1Result(Layer1IsSafe)]
            /\ pc' = [pc EXCEPT ![r] = "l1_returned"]
            /\ UNCHANGED raised
       ELSE /\ raised' = [raised EXCEPT ![r] = "AuditLogError"]
            /\ pc' = [pc EXCEPT ![r] = "aborted"]
            /\ UNCHANGED <<auditLog, nextSeq, l1Result>>
    /\ appendFailed' = [appendFailed EXCEPT ![r] =
                            IF logOk THEN @ ELSE @ \cup {"safety_layer1_check"}]
    /\ UNCHANGED <<promptVars, classifierVars, currentUser, l2Invoked, l2Outcome, l2Return, toolAuth,
                   toolArgs, toolResult, tickets, resolveVars>>

\* Step 1 -> Step 2: "If it fails, STOP and refuse the request; if it passes,
\* proceed to Step 2": safety_check_layer2 is called and waits on Gemini.
CallLayer2(r) ==
    /\ pc[r] = "l1_returned"
    /\ IF l1Result[r] = "PASSED"
       THEN /\ pc' = [pc EXCEPT ![r] = "l2_calling"]
            /\ l2Invoked' = [l2Invoked EXCEPT ![r] = TRUE]
       ELSE /\ pc' = [pc EXCEPT ![r] = "dispatched"]
            /\ UNCHANGED l2Invoked
    /\ UNCHANGED <<promptVars, classifierVars, appendFailed, currentUser, l1Result,
                   l2Outcome, l2Return, raised, toolAuth,
                   toolArgs, toolResult, auditLog, nextSeq, tickets, resolveVars>>

\* safety_check_layer2 with an except branch that returns the escalate default
\* without the log_event call of lines 156-162
SafetyCheckLayer2FailureUnlogged(r, outcome, logOk, logOk2) ==
    /\ pc[r] = "l2_calling"
    /\ l2Outcome' = [l2Outcome EXCEPT ![r] = outcome]
    /\ LET e == Layer2TryError(outcome, logOk) IN
       IF e = ""
       THEN LET safety_decision == JsonLoads(outcome.text) IN
            /\ auditLog' = LogEvent(auditLog, nextSeq, r, currentUser, "safety_layer2_check",
                                    Layer2Details(r, safety_decision), TRUE, "")
            /\ nextSeq' = NextSeq(nextSeq)
            /\ l2Return' = [l2Return EXCEPT ![r] = JsonDumps(safety_decision)]
       ELSE /\ l2Return' = [l2Return EXCEPT ![r] = JsonDumps(ErrorResponse(e))]
            /\ UNCHANGED <<auditLog, nextSeq>>
    /\ pc' = [pc EXCEPT ![r] = "l2_returned"]
    /\ appendFailed' = [appendFailed EXCEPT ![r] =
                            @ \cup Layer2FailedAppends(outcome, logOk, TRUE)]
    /\ UNCHANGED <<promptVars, classifierVars, currentUser, l1Result, l2Invoked, raised,
                   toolAuth, toolArgs, toolResult, tickets, resolveVars>>

\* Step 2: the body of safety_check_layer2 from the answer of Gemini on:
\* parse, log, return; or the except branch: log the failure, return the
\* escalate default.  logOk and logOk2 tell whether the first and the second
\* log_event call succeed.
SafetyCheckLayer2(r, outcome, logOk, logOk2) ==
    /\ pc[r] = "l2_calling"
    /\ l2Outcome' = [l2Outcome EXCEPT ![r] = outcome]
    /\ LET e == Layer2TryError(outcome, logOk) IN
       IF e = ""
       THEN LET safety_decision == JsonLoads(outcome.text) IN
            /\ auditLog' = LogEvent(auditLog, nextSeq, r, currentUser, "safety_layer2_check",
                                    Layer2Details(r, safety_decision), TRUE, "")
            /\ nextSeq' = NextSeq(nextSeq)
            /\ l2Return' = [l2Return EXCEPT ![r] = JsonDumps(safety_decision)]
            /\ pc' = [pc EXCEPT ![r] = "l2_returned"]
            /\ UNCHANGED raised
       ELSE IF logOk2
       THEN /\ auditLog' = LogEvent(auditLog, nextSeq, r, currentUser,
                                    "safety_layer2_check_failed", NoDetails,
                                    FALSE, e)
            /\ nextSeq' = NextSeq(nextSeq)
            /\ l2Return' = [l2Return EXCEPT ![r] = JsonDumps(ErrorResponse(e))]
            /\ pc' = [pc EXCEPT ![r] = "l2_returned"]
            /\ UNCHANGED raised
       ELSE /\ raised' = [raised EXCEPT ![r] = "AuditLogError"]
            /\ pc' = [pc EXCEPT ![r] = "aborted"]
            /\ UNCHANGED <<auditLog, nextSeq, l2Return>>
    /\ appendFailed' = [appendFailed EXCEPT ![r] = @ \cup Layer2FailedAppends(outcome, logOk, logOk2)]
    /\ UNCHANGED <<promptVars, classifierVars, currentUser, l1Result, l2Invoked, toolAuth, toolArgs,
                   toolResult, tickets, resolveVars>>

\* Steps 3 and 4: the router reads the action and handles it: approve and
\* rewrite go on to the banking tools, escalate creates a ticket, reject and
\* anything else do neither.
HandleAction(r) ==
    /\ pc[r] = "l2_returned"
    /\ LET decision == JsonLoads(l2Return[r])
           action == DecisionAction(l2Return[r]) IN
       /\ toolAuth' = [toolAuth EXCEPT ![r] =
              IF GrantsTools(action) THEN <<EffectiveInput(r, decision)>>
              ELSE <<>>]
       /\ tickets' =
              IF CreatesTicket(action)
              THEN Append(tickets, NewTicket(Len(tickets) + 1, currentUser,
                                             UserInput(r), decision.reasoning, r))
              ELSE tickets
    /\ pc' = [pc EXCEPT ![r] = "dispatched"]
    /\ UNCHANGED <<promptVars, classifierVars, appendFailed, currentUser, l1Result, l2Invoked, l2Outcome, l2Return, raised,
                   toolArgs, toolResult, auditLog, nextSeq, resolveVars>>

\* Step 4, approve/rewrite: a banking tool is called for the current user;
\* the gate answers and logs the permission check.
BankingToolCall(r, capability, target) ==
    /\ pc[r] = "dispatched"
    /\ toolAuth[r] # <<>>
    /\ toolResult[r] = NoAuthResult
    /\ LET res == Authorize(currentUser, capability, target) IN
       /\ toolArgs' = [toolArgs EXCEPT ![r] =
                          [capability |-> capability, target |-> target]]
       /\ toolResult' = [toolResult EXCEPT ![r] = res]
       /\ auditLog' = LogEvent(auditLog, nextSeq, r, currentUser, "authorize", NoDetails,
                               res.kind = "Authorization", "")
       /\ nextSeq' = NextSeq(nextSeq)
    /\ UNCHANGED <<promptVars, classifierVars, appendFailed, currentUser, pc, l1Result, l2Invoked, l2Outcome, l2Return,
                   raised, toolAuth, tickets, resolveVars>>

\* Step 5.1: log_agent_response(response_summary)
LogAgentResponse(r, logOk) ==
    /\ pc[r] = "dispatched"
    /\ IF logOk
       THEN /\ auditLog' = LogEvent(auditLog, nextSeq, r, currentUser, "llm_response",
                                    NoDetails, TRUE, "")
            /\ nextSeq' = NextSeq(nextSeq)
            /\ pc' = [pc EXCEPT ![r] = "logged"]
            /\ UNCHANGED raised
       ELSE /\ raised' = [raised EXCEPT ![r] = "AuditLogError"]
            /\ pc' = [pc EXCEPT ![r] = "aborted"]
            /\ UNCHANGED <<auditLog, nextSeq>>
    /\ appendFailed' = [appendFailed EXCEPT ![r] =
                            IF logOk THEN @ ELSE @ \cup {"llm_response"}]
    /\ UNCHANGED <<promptVars, classifierVars, currentUser, l1Result, l2Invoked, l2Outcome, l2Return,
                   toolAuth, toolArgs, toolResult, tickets, resolveVars>>

\* Step 5.2: "Then, and ONLY then, provide your response to the user"
Respond(r) ==
    /\ MayRespond(r)
    /\ pc' = [pc EXCEPT ![r] = "responded"]
    /\ UNCHANGED <<promptVars, classifierVars, appendFailed, currentUser, l1Result, l2Invoked, l2Outcome, l2Return, raised,
                   toolAuth, toolArgs, toolResult, auditLog, nextSeq, tickets,
                   resolveVars>>

\* resolve(ticketId, note, actingActor), first half: the gate is asked for
\* the ticket-administration capability and logs the check.
ResolveAuthorize(a, t, actor) ==
    /\ apc[a] = "idle"
    /\ aArgs' = [aArgs EXCEPT ![a] = [ticket |-> t, actor |-> actor]]
    /\ LET res == Authorize(actor, "ADMINISTER_TICKETS", NoTarget) IN
       /\ auditLog' = LogEvent(auditLog, nextSeq, 0, actor, "authorize", NoDetails,
                               res.kind = "Authorization", "")
       /\ nextSeq' = NextSeq(nextSeq)
       /\ IF res.kind = "Authorization"
          THEN /\ apc' = [apc EXCEPT ![a] = "authorized"]
               /\ UNCHANGED aResult
          ELSE /\ apc' = [apc EXCEPT ![a] = "done"]
               /\ aResult' = [aResult EXCEPT ![a] = "AccessDenied"]
    /\ UNCHANGED <<promptVars, classifierVars, currentUser, pipelineVars, tickets>>

\* resolve, second half: the atomic transition OPEN -> RESOLVED
ResolveCommit(a) ==
    /\ apc[a] = "authorized"
    /\ apc' = [apc EXCEPT ![a] = "done"]
    /\ LET t == aArgs[a].ticket IN
       IF t \notin DOMAIN tickets
       THEN /\ aResult' = [aResult EXCEPT ![a] = "NotFound"]
            /\ UNCHANGED <<tickets, auditLog, nextSeq>>
       ELSE IF MayResolve(tickets[t])
       THEN /\ tickets' = [tickets EXCEPT ![t] =
                   [@ EXCEPT !.status = "RESOLVED",
                             !.resolutionNote = ResolutionNote(a),
                             !.resolvedBy = aArgs[a].actor]]
            /\ aResult' = [aResult EXCEPT ![a] = "Resolved"]
            /\ auditLog' = LogEvent(auditLog, nextSeq, 0, aArgs[a].actor, "ticket_resolved",
                                    NoDetails, TRUE, "")
            /\ nextSeq' = NextSeq(nextSeq)
       ELSE /\ aResult' = [aResult EXCEPT ![a] = "AlreadyResolved"]
            /\ UNCHANGED <<tickets, auditLog, nextSeq>>
    /\ UNCHANGED <<promptVars, classifierVars, currentUser, pipelineVars, aArgs>>

Next ==
    \/ \E r \in Requests, logOk \in BOOLEAN : SafetyCheckLayer1(r, logOk)
    \/ \E r \in Requests : CallLayer2(r)
    \/ \E r \in Requests, outcome \in EvaluatorOutcomes, logOk, logOk2 \in BOOLEAN :
          SafetyCheckLayer2(r, outcome, logOk, logOk2)
    \/ \E r \in Requests : HandleAction(r)
    \/ \E r \in Requests, capability \in {"VIEW_OWN_RESOURCE", "VIEW_ANY_RESOURCE"},
          target \in UserIds :
          BankingToolCall(r, capability, target)
    \/ \E r \in Requests, logOk \in BOOLEAN : LogAgentResponse(r, logOk)
    \/ \E r \in Requests : Respond(r)

\* The request pipeline: every request of this process, from Step 1 to the
\* response, in any interleaving.
Spec == Init /\ [][Next]_vars

\* ------------------------------------------------- the persisted stores
\* The audit log and the ticket store survive a restart.  What an earlier
\* session of user u left behind: a request whose layer-2 call timed out, its
\* three audit entries and its OPEN escalation ticket.
EarlierLog(u) ==
    LET l1 == LogEvent(<<>>, 1, 0, u, "safety_layer1_check",
                       Layer1Details(0), TRUE, "")
        l2 == LogEvent(l1, NextSeq(1), 0, u, "safety_layer2_check_failed",
                       NoDetails, FALSE, "TimeoutError")
    IN LogEvent(l2, NextSeq(NextSeq(1)), 0, u, "llm_response", NoDetails, TRUE, "")

EarlierTickets(u) ==
    <<NewTicket(1, u, UserInput(0), ErrorResponse("TimeoutError").reasoning, 0)>>

InitStores ==
    /\ currentUser \in UserIds
    /\ pc = [r \in Requests |-> "start"]
    /\ l1Result = [r \in Requests |-> "none"]
    /\ l2Invoked = [r \in Requests |-> FALSE]
    /\ l2Outcome = [r \in Requests |-> NoOutcome]
    /\ l2Return = [r \in Requests |-> NoReturn]
    /\ raised = [r \in Requests |-> ""]
    /\ appendFailed = [r \in Requests |-> {}]
    /\ toolAuth = [r \in Requests |-> <<>>]
    /\ toolArgs = [r \in Requests |-> NoToolArgs]
    /\ toolResult = [r \in Requests |-> NoAuthResult]
    /\ auditLog = EarlierLog(currentUser)
    /\ tickets = EarlierTickets(currentUser)
    /\ nextSeq = Len(auditLog) + 1
    /\ apc = [a \in Attempts |-> "idle"]
    /\ aArgs = [a \in Attempts |-> NoArgs]
    /\ aResult = [a \in Attempts |-> "none"]
    /\ roleStr = RoleString(USERS[currentUser].role)
    /\ toolDescriptions = GetToolDescriptions(roleStr)
    /\ textCheck = NoTextCheck
    /\ imageCheck = NoImageCheck

NextStores ==
    \/ \E r \in Requests, logOk \in BOOLEAN : SafetyCheckLayer1(r, logOk)
    \/ \E a \in Attempts, t \in 1..(Len(tickets) + 1), actor \in UserIds :
          ResolveAuthorize(a, t, actor)
    \/ \E a \in Attempts : ResolveCommit(a)

\* The persisted stores under concurrent writers: requests entering the
\* pipeline and resolve operations of any actors.
SpecStores == InitStores /\ [][NextStores]_vars

\* --------------------------------------------------- building the prompt
\* the role strings a process may be configured with: the three roles in any
\* capitalisation, and strings that name no role
CaseVariants(word) ==
    { [i \in DOMAIN word |-> IF i \in up THEN UpperChar(word[i]) ELSE word[i]] :
         up \in SUBSET DOMAIN word }

UnknownRoleStrings ==
    { <<>>, <<"g", "u", "e", "s", "t">>, <<"r", "o", "o", "t">>,
      <<" ", "a", "d", "m", "i", "n">>, <<"A", "D", "M", "I", "N", "S">>,
      <<"s", "t", "a", "f">> }

RoleStrings ==
    UNION { CaseVariants(UserRoleValues[role]) : role \in DOMAIN UserRoleValues }
    \cup UnknownRoleStrings

InitPrompt ==
    /\ currentUser \in UserIds
    /\ pc = [r \in Requests |-> "start"]
    /\ l1Result = [r \in Requests |-> "none"]
    /\ l2Invoked = [r \in Requests |-> FALSE]
    /\ l2Outcome = [r \in Requests |-> NoOutcome]
    /\ l2Return = [r \in Requests |-> NoReturn]
    /\ raised = [r \in Requests |-> ""]
    /\ appendFailed = [r \in Requests |-> {}]
    /\ toolAuth = [r \in Requests |-> <<>>]
    /\ toolArgs = [r \in Requests |-> NoToolArgs]
    /\ toolResult = [r \in Requests |-> NoAuthResult]
    /\ auditLog = <<>>
    /\ nextSeq = 1
    /\ tickets = <<>>
    /\ apc = [a \in Attempts |-> "idle"]
    /\ aArgs = [a \in Attempts |-> NoArgs]
    /\ aResult = [a \in Attempts |-> "none"]
    /\ roleStr \in RoleStrings
    /\ toolDescriptions = NoToolDescriptions
    /\ textCheck = NoTextCheck
    /\ imageCheck = NoImageCheck

\* ROUTER_INSTRUCTIONS is evaluated: get_tool_descriptions(IAM_CURRENT_USER_ROLE)
BuildRouterInstructions ==
    /\ toolDescriptions = NoToolDescriptions
    /\ toolDescriptions' = GetToolDescriptions(roleStr)
    /\ UNCHANGED <<roleStr, classifierVars, currentUser, pipelineVars, auditLog,
                   nextSeq, tickets, resolveVars>>

NextPrompt == BuildRouterInstructions

\* The prompt module being imported under any configured role string.
SpecPrompt == InitPrompt /\ [][NextPrompt]_vars

\* ------------------------------------------------ the classifier wrappers
CheckText(out) ==
    /\ textCheck' = [called |-> TRUE, outcome |-> out,
                     result |-> TextSafetyCheck(out)]
    /\ UNCHANGED <<promptVars, imageCheck, currentUser, pipelineVars, auditLog,
                   nextSeq, tickets, resolveVars>>

CheckImage(input, out) ==
    /\ imageCheck' = [called |-> TRUE, input |-> input, outcome |-> out,
                      result |-> ImageSafetyCheck(out)]
    /\ UNCHANGED <<promptVars, textCheck, currentUser, pipelineVars, auditLog,
                   nextSeq, tickets, resolveVars>>

NextClassifiers ==
    \/ \E out \in TextClassifierOutcomes : CheckText(out)
    \/ \E input \in ImageInputs, out \in ImageModelOutcomes : CheckImage(input, out)

\* TextSafetyTool.check and ImageSafetyTool.check called on any inputs.
SpecClassifiers == Init /\ [][NextClassifiers]_vars

\* ================================================================== claims
\* safety_check_layer2 has returned a string for request r
L2Returned(r) == IsJson(l2Return[r])

\* the decision safety_check_layer2 returned for request r
ReturnedDecision(r) == JsonLoads(l2Return[r])

\* the Gemini call of request r raised, or answered with text that is not JSON
EvaluatorFailed(r) ==
    \/ l2Outcome[r].kind = "raise"
    \/ l2Outcome[r].kind = "text" /\ ~IsJson(l2Outcome[r].text)

\* the error that failure raised inside safety_check_layer2
EvaluatorFailure(r) ==
    IF l2Outcome[r].kind = "raise" THEN l2Outcome[r].error ELSE "JSONDecodeError"

\* the JSON object Gemini answered with for request r
EvaluatorAnswered(r) == l2Outcome[r].kind = "text" /\ IsJson(l2Outcome[r].text)
EvaluatorPayload(r) == JsonLoads(l2Outcome[r].text)

\* C1: whenever the stage-2 evaluator call fails (it raises, times out, or its
\* output cannot be parsed), the decision safety_check_layer2 returns has
\* action escalate and confidence 0.0 and its reasoning names the failure; it
\* is never approve; and the evaluator's error never leaves the call.
C1_FailSafeEscalate ==
    \A r \in Requests :
        EvaluatorFailed(r) =>
            /\ raised[r] \notin EvaluatorErrors \cup {"JSONDecodeError"}
            /\ L2Returned(r) =>
                  /\ ReturnedDecision(r).action = "escalate"
                  /\ ReturnedDecision(r).action # "approve"
                  /\ ReturnedDecision(r).confidence = 0
                  /\ ReturnedDecision(r).reasoning =
                         <<"Error during safety check", EvaluatorFailure(r)>>

\* safety_check_layer2 has returned for a request whose Gemini call timed out
\* or answered with text that is not JSON
C1_Witness ==
    \E r \in Requests :
        /\ L2Returned(r)
        /\ EvaluatorFailed(r)
        /\ EvaluatorFailure(r) \in {"TimeoutError", "JSONDecodeError"}
        /\ pc[r] = "l2_returned"

\* C2: a parseable answer whose action is none of approve, reject, rewrite,
\* escalate (or that has no action) yields the same decision as a failure:
\* escalate with confidence 0.0.
C2_UnknownActionEscalates ==
    \A r \in Requests :
        (/\ L2Returned(r)
         /\ EvaluatorAnswered(r)
         /\ EvaluatorPayload(r).action \notin Actions)
        => /\ ReturnedDecision(r).action = "escalate"
           /\ ReturnedDecision(r).confidence = 0

\* C10: a rewrite answer without rewritten text yields escalate with
\* confidence 0.0, and the banking tools are called with nothing.
C10_RewriteWithoutTextEscalates ==
    \A r \in Requests :
        (/\ L2Returned(r)
         /\ EvaluatorAnswered(r)
         /\ EvaluatorPayload(r).action = "rewrite"
         /\ EvaluatorPayload(r).params.rewritten_text = NoText)
        => /\ ReturnedDecision(r).action = "escalate"
           /\ ReturnedDecision(r).confidence = 0
           /\ toolAuth[r] = <<>>

\* the audit entries request r's tool calls appended, by action
EntriesOf(r, action) ==
    {i \in DOMAIN auditLog : auditLog[i].req = r /\ auditLog[i].action = action}

Winners(t) ==
    {a \in Attempts : aResult[a] = "Resolved" /\ aArgs[a].ticket = t}
FinishedAuthorized(t) ==
    {a \in Attempts : /\ apc[a] = "done"
                      /\ aArgs[a].ticket = t
                      /\ USERS[aArgs[a].actor].role \in {"STAFF", "ADMIN"}}

C5_ResolvedOnce ==
    \A t \in DOMAIN tickets :
        /\ Cardinality(Winners(t)) <= 1
        /\ FinishedAuthorized(t) # {} => Cardinality(Winners(t)) = 1
        /\ \A a \in FinishedAuthorized(t) \ Winners(t) :
              aResult[a] = "AlreadyResolved"
        /\ tickets[t].status = "RESOLVED" <=> Winners(t) # {}
        /\ \A a \in Winners(t) :
              /\ tickets[t].resolutionNote = ResolutionNote(a)
              /\ tickets[t].resolvedBy = aArgs[a].actor

C5_ResolveStep ==
    /\ DOMAIN tickets \subseteq DOMAIN tickets'
    /\ \A t \in DOMAIN tickets :
          tickets[t].status = "RESOLVED" => tickets'[t] = tickets[t]
    /\ \A a \in Attempts :
          aResult[a] = "none" /\ aResult'[a] = "AlreadyResolved"
              => tickets' = tickets

\* C5: of any number of concurrent resolve attempts by authorized actors on
\* one OPEN ticket exactly one succeeds, the others fail with AlreadyResolved
\* and change nothing, the ticket ends RESOLVED with the winner's note and
\* resolvedBy; a RESOLVED ticket is never changed again and none is deleted.
C5_ExactlyOnceResolution == []C5_ResolvedOnce /\ [][C5_ResolveStep]_vars

\* two authorized attempts on the OPEN ticket have finished: one won, one
\* failed with AlreadyResolved
C5_Witness ==
    \E a, b \in Attempts :
        /\ a # b
        /\ aArgs[a].ticket = 1 /\ aArgs[b].ticket = 1
        /\ aResult[a] = "Resolved"
        /\ aResult[b] = "AlreadyResolved"
        /\ tickets[1].status = "RESOLVED"

C6_Sequenced ==
    /\ \A i \in DOMAIN auditLog : auditLog[i].seq = i
    /\ \A i, j \in DOMAIN auditLog :
          i < j => auditLog[i].seq < auditLog[j].seq
    /\ nextSeq = Len(auditLog) + 1

C6_AppendOnly ==
    /\ Len(auditLog') >= Len(auditLog)
    /\ SubSeq(auditLog', 1, Len(auditLog)) = auditLog

\* C6: under concurrent writers every appended audit entry has its own
\* sequence number, the numbers increase by one in append order (none lost,
\* none twice), and an appended entry is never changed or removed.
C6_AuditLogOrdered == []C6_Sequenced /\ [][C6_AppendOnly]_vars

\* the entry of a request entering the pipeline lies between the two entries
\* of a resolve operation
C6_Witness ==
    \E i, j, k \in DOMAIN auditLog :
        /\ i < j /\ j < k
        /\ auditLog[i].action = "authorize"
        /\ auditLog[j].action = "safety_layer1_check" /\ auditLog[j].req \in Requests
        /\ auditLog[k].action = "ticket_resolved"

\* C7: an actor of role USER (no any-resource capability) asking the gate for
\* any capability on a target other than its own id is answered AccessDenied,
\* carrying the capability and the target asked for; it is authorized only
\* against its own id.
C7_OwnershipEnforced ==
    \A r \in Requests :
        (toolResult[r] # NoAuthResult /\ USERS[currentUser].role = "USER") =>
            /\ toolArgs[r].target # USERS[currentUser].id =>
                  toolResult[r] = [kind |-> "AccessDenied",
                                   capability |-> toolArgs[r].capability,
                                   target |-> toolArgs[r].target]
            /\ toolResult[r].kind = "Authorization" =>
                  toolArgs[r].target = USERS[currentUser].id

\* the USER actor was denied another user's resource under the capability it
\* does hold
C7_Witness ==
    \E r \in Requests :
        /\ USERS[currentUser].role = "USER"
        /\ toolArgs[r] = [capability |-> "VIEW_OWN_RESOURCE", target |-> "staff"]
        /\ toolResult[r].kind = "AccessDenied"

TicketsOf(r) == {t \in DOMAIN tickets : tickets[t].req = r}

\* the router has handled the action of request r (Step 4 is done)
ActionHandled(r) == L2Returned(r) /\ pc[r] # "l2_returned"

PromptBuilt == toolDescriptions # NoToolDescriptions

\* the privilege order USER < STAFF < ADMIN
RoleRank == [USER |-> 1, STAFF |-> 2, ADMIN |-> 3]

\* the list `tools` offers the tool function of entry t, with at least t's
\* parameters
Offers(tools, t) ==
    \E i \in DOMAIN tools : tools[i].name = t.name /\ t.params \subseteq tools[i].params

\* role_str.lower() is the value of one of the three roles
KnownRoleString(role_str) ==
    \E role \in DOMAIN UserRoleValues : Lower(role_str) = UserRoleValues[role]

\* C11: the list of tools built for a role string is the list of the role it
\* denotes, whatever the case it is written in (the mapping is a function of
\* the role), and it is monotone along USER < STAFF < ADMIN: every tool
\* function offered to a role of lower rank, administrative tools included,
\* is offered with at least the same parameters.
C11_RoleToolsMonotone ==
    PromptBuilt =>
        /\ toolDescriptions = GetToolDescriptions(RoleString(UserRoleOf(roleStr)))
        /\ \A lower \in DOMAIN RoleRank :
              RoleRank[lower] <= RoleRank[UserRoleOf(roleStr)] =>
                  /\ \A i \in DOMAIN AdministrativeTools(lower) :
                        Offers(toolDescriptions, AdministrativeTools(lower)[i])
                  /\ \A i \in DOMAIN GetToolDescriptions(RoleString(lower)) :
                        Offers(toolDescriptions, GetToolDescriptions(RoleString(lower))[i])

\* the list has been built for a mixed-case spelling of the ADMIN role, and it
\* offers the ticket resolution STAFF is offered
C11_Witness ==
    /\ PromptBuilt
    /\ roleStr = <<"A", "d", "M", "i", "N">>
    /\ \E i \in DOMAIN toolDescriptions :
          toolDescriptions[i].name = "resolve_escalation_ticket"

\* the tool functions and the entries only STAFF or ADMIN are offered: ticket
\* resolution, audit-log viewing, and the listing of all tickets
PrivilegedToolNames == {"resolve_escalation_ticket", "view_audit_logs"}
PrivilegedToolKeys == {"list_escalations_admin", "list_escalations_staff",
                       "view_audit_logs", "resolve_escalation"}

\* C15: for every role string that is not a known role, the tools offered are
\* exactly those offered to USER: no ticket resolution, no listing of all
\* tickets, no audit-log viewing.
C15_UnknownRoleLeastPrivilege ==
    (PromptBuilt /\ ~KnownRoleString(roleStr)) =>
        /\ toolDescriptions = GetToolDescriptions(UserRoleValues.USER)
        /\ \A i \in DOMAIN toolDescriptions :
              /\ toolDescriptions[i].name \notin PrivilegedToolNames
              /\ toolDescriptions[i].key \notin PrivilegedToolKeys

\* the list has been built for " admin", which is no role's value
C15_Witness ==
    /\ PromptBuilt
    /\ roleStr = <<" ", "a", "d", "m", "i", "n">>
    /\ ~KnownRoleString(roleStr)
    /\ \E i \in DOMAIN toolDescriptions :
          toolDescriptions[i].key = "list_escalations_user"

\* ----------------------------------------------------------- the classifiers
\* C13: no evaluator component fails open.  When the text classifier or the
\* image classifier raised during check, the result check returned does not
\* report the input as safe.
C13_ClassifiersFailClosed ==
    /\ (textCheck.called /\ TextCheckRaises(textCheck.outcome)) =>
          ~textCheck.result.is_safe
    /\ (imageCheck.called /\ imageCheck.outcome.kind = "raise") =>
          ~imageCheck.result.is_safe

\* ------------------------------------------------------ audit logger failures
\* the two log_event calls of safety_check_layer2
Layer2Appends == {"safety_layer2_check", "safety_layer2_check_failed"}

\* C12: a failure of the audit logger is fatal to the request.  If appending
\* the audit entry of a stage failed, that stage returns nothing for the
\* request (safety_check_layer2 not even the fail-safe escalate decision), the
\* request goes no further, and no response is given.
C12_LogFailureIsFatal ==
    \A r \in Requests :
        /\ "safety_layer1_check" \in appendFailed[r] => l1Result[r] = "none"
        /\ appendFailed[r] \cap Layer2Appends # {} => ~L2Returned(r)
        /\ appendFailed[r] # {} => pc[r] = "aborted"

\* ------------------------------------------------------- entries per stage
\* the audit entries the safety_check_layer2 call of request r appended
Layer2Entries(r) ==
    EntriesOf(r, "safety_layer2_check") \cup EntriesOf(r, "safety_layer2_check_failed")

\* the try block of safety_check_layer2 ran to its return for request r
Layer2Succeeded(r) ==
    /\ L2Returned(r)
    /\ EvaluatorAnswered(r)
    /\ "safety_layer2_check" \notin appendFailed[r]

\* C14: each stage invocation appends exactly one audit entry.  A returned
\* safety_check_layer1 call has appended exactly one entry; entries of the
\* deep stage exist only when that call was made, after the pre-filter
\* returned PASSED; a returned safety_check_layer2 call has appended exactly
\* one entry, safety_layer2_check on the success path and
\* safety_layer2_check_failed on the failure path, never zero and never two;
\* the only call that leaves no entry is one the audit logger's own exception
\* left.
C14_OneEntryPerStage ==
    \A r \in Requests :
        /\ Cardinality(EntriesOf(r, "safety_layer1_check")) =
              (IF l1Result[r] # "none" THEN 1 ELSE 0)
        /\ Layer2Entries(r) # {} => (l2Invoked[r] /\ l1Result[r] = "PASSED")
        /\ Cardinality(Layer2Entries(r)) <= 1
        /\ L2Returned(r) =>
              /\ Cardinality(Layer2Entries(r)) = 1
              /\ Layer2Succeeded(r) =>
                    Layer2Entries(r) = EntriesOf(r, "safety_layer2_check")
              /\ ~Layer2Succeeded(r) =>
                    Layer2Entries(r) = EntriesOf(r, "safety_layer2_check_failed")
        /\ (l2Outcome[r] # NoOutcome /\ Layer2Entries(r) = {}) =>
              /\ raised[r] = "AuditLogError"
              /\ "safety_layer2_check_failed" \in appendFailed[r]

\* a safety_check_layer2 call whose first log_event raised after Gemini had
\* answered has returned through the except branch, with one entry in the log
C14_Witness ==
    \E r \in Requests :
        /\ L2Returned(r)
        /\ EvaluatorAnswered(r)
        /\ "safety_layer2_check" \in appendFailed[r]
        /\ Cardinality(Layer2Entries(r)) = 1
        /\ Cardinality(EntriesOf(r, "safety_layer1_check")) = 1

====
